---- MODULE Spec2Model ----
(***************************************************************************)
(* State-machine model of the FHIR Patient Manager: the form state of      *)
(* CreatePatientForm, its handlers, the pure resource builder              *)
(* generateFHIRResource, the simulated request of handleSubmit, the        *)
(* GetPatientForm with its simulated request, and the mode toggle of       *)
(* FHIRPatientApp that mounts one form and unmounts the other.             *)
(*                                                                         *)
(* JavaScript strings are TLA+ strings, '' is "".  Arrays are sequences.   *)
(* Objects are records; an object whose key set varies (the resource) is a *)
(* function from key names, so the presence of a key is DOMAIN membership. *)
(* A toast description is kept as its sequence of words so that the words  *)
(* a notification contains can be inspected.                               *)
(***************************************************************************)
EXTENDS Integers, Sequences, FiniteSets, TLC

VARIABLES
    mode,          \* FHIRPatientApp: 'create' | 'get'
    inst,          \* number of form mounts so far; identifies the mounted form instance
    patientData,   \* CreatePatientForm state: six required fields and optionalFields
    response,      \* CreatePatientForm state: '' or the stringified mock response
    isLoading,     \* CreatePatientForm state
    pending,       \* handleSubmit calls suspended at the await, with their closures
    toast,         \* the notification emitted by the last handler step, NoToast if none
    lastAction,    \* name of the last handler step
    edits,         \* number of edit events so far (model bound)
    fhirResource,  \* result of the latest generateFHIRResource call of the builder harness
    patientId,     \* GetPatientForm state
    getResponse,   \* GetPatientForm state response: '' or the stringified mock patient
    getPatientData,\* GetPatientForm state patientData: null or the mock patient
    getIsLoading,  \* GetPatientForm state isLoading
    pendingGet     \* GetPatientForm handleSubmit calls suspended at the await

getVars == <<patientId, getResponse, getPatientData, getIsLoading>>

vars == <<mode, inst, patientData, response, isLoading, pending, toast,
          lastAction, edits, fhirResource, getVars, pendingGet>>

(***************************************************************************)
(* Bounds of the model.                                                    *)
(***************************************************************************)
\* number of distinct non-empty values of a required field in the builder harness
NumVals == 1
\* number of edit events (input changes, optional-field add/remove/change)
MaxEdits == 7
\* number of form mounts (the first mount included)
MaxMounts == 3
\* number of distinct clock readings
MaxClock == 1
MaxAnyLen == 4

(***************************************************************************)
(* Data.                                                                   *)
(***************************************************************************)
RequiredFields == {"firstName", "lastName", "gender", "birthDate", "phone", "address"}

\* The values typed into each required field, the first ones first.
Samples ==
    [firstName |-> <<"John", "Jane", "Ann">>,
     lastName  |-> <<"Doe", "Roe", "Poe">>,
     gender    |-> <<"male", "female", "other">>,
     birthDate |-> <<"1980-01-15", "1990-02-20", "2000-03-25">>,
     phone     |-> <<"555-1234", "555-5678", "555-9999">>,
     address   |-> <<"1 Main St", "2 High St", "3 Low St">>]

Min(a, b) == IF a < b THEN a ELSE b

FieldVals(f) == {""} \cup {Samples[f][i] : i \in 1..Min(NumVals, Len(Samples[f]))}

\* The values typed into a required field of the mounted form: the empty
\* string (the field cleared) and one non-empty value.
TypedVals(f) == {"", Samples[f][1]}

\* (variant: an option is added to the catalog)
optionalFieldOptions_WithNickname ==
    << [key |-> "email",         label |-> "Email"],
       [key |-> "maritalStatus", label |-> "Marital Status"],
       [key |-> "language",      label |-> "Language"],
       [key |-> "birthPlace",    label |-> "Birth Place"],
       [key |-> "nickname",      label |-> "Nickname"] >>

optionalFieldOptions ==
    << [key |-> "email",         label |-> "Email"],
       [key |-> "maritalStatus", label |-> "Marital Status"],
       [key |-> "language",      label |-> "Language"],
       [key |-> "birthPlace",    label |-> "Birth Place"] >>

CatalogKeys == {optionalFieldOptions[i].key : i \in DOMAIN optionalFieldOptions}

\* A key that is not in the catalog.
OutsideKeys == {"nickname"}

\* The values typed into an optional field of each key.
OptVals(k) ==
    CASE k = "email"         -> {"", "a@b.com"}
      [] k = "maritalStatus" -> {"", "M"}
      [] k = "language"      -> {"", "en"}
      [] k = "birthPlace"    -> {"", "Boston"}
      [] OTHER               -> {"", "x"}

InitialPatientData ==
    [firstName |-> "", lastName |-> "", gender |-> "", birthDate |-> "",
     phone |-> "", address |-> "", optionalFields |-> <<>>]

\* optionalFieldOptions.find(option => option.key === fieldKey): the set of
\* the first match, empty when there is none (undefined).
FindOption(fieldKey) ==
    LET hits == {i \in DOMAIN optionalFieldOptions : optionalFieldOptions[i].key = fieldKey}
    IN  IF hits = {} THEN {}
        ELSE {optionalFieldOptions[CHOOSE i \in hits : \A j \in hits : i <= j]}

\* optionalFieldOptions.filter(option => !optionalFields.some(field => field.key === option.key))
\* (variant: the catalog is offered unfiltered)
availableOptionalFields_Unfiltered(pd) == optionalFieldOptions

availableOptionalFields(pd) ==
    SelectSeq(optionalFieldOptions,
              LAMBDA option : ~(\E i \in DOMAIN pd.optionalFields :
                                    pd.optionalFields[i].key = option.key))

(***************************************************************************)
(* generateFHIRResource.                                                   *)
(***************************************************************************)
\* resource[k] = v on an object: sets the key, adding it when absent.
SetKey(resource, k, v) == (k :> v) @@ resource

\* case 'email': resource.telecom.push({...})
\* (variant: the break is missing and control falls into case 'maritalStatus')
emailCase_FallsThrough(resource, field) ==
    SetKey([resource EXCEPT !["telecom"] =
                Append(@, [system |-> "email", value |-> field.value, use |-> "home"])],
           "maritalStatus",
           [coding |-> << [system  |-> "http://terminology.hl7.org/CodeSystem/v3-MaritalStatus",
                           code    |-> field.value,
                           display |-> field.value] >>])

\* (variant: the entry is assigned to telecom instead of pushed)
emailCase_Replaces(resource, field) ==
    [resource EXCEPT !["telecom"] =
        << [system |-> "email", value |-> field.value, use |-> "home"] >>]

emailCase(resource, field) ==
    [resource EXCEPT !["telecom"] =
        Append(@, [system |-> "email", value |-> field.value, use |-> "home"])]

\* case 'maritalStatus': resource.maritalStatus = {coding: [...]}
\* (variant: display is taken from the field's label)
maritalStatusCase_DisplayLabel(resource, field) ==
    SetKey(resource, "maritalStatus",
        [coding |-> << [system  |-> "http://terminology.hl7.org/CodeSystem/v3-MaritalStatus",
                        code    |-> field.value,
                        display |-> field.label] >>])

maritalStatusCase(resource, field) ==
    SetKey(resource, "maritalStatus",
        [coding |-> << [system  |-> "http://terminology.hl7.org/CodeSystem/v3-MaritalStatus",
                        code    |-> field.value,
                        display |-> field.value] >>])

\* case 'birthPlace': resource.extension = [{url, valueAddress: {text}}]
\* (variant: the value is stored as valueString)
birthPlaceCase_ValueString(resource, field) ==
    SetKey(resource, "extension",
        << [url |-> "http://hl7.org/fhir/StructureDefinition/patient-birthPlace",
            valueString |-> field.value] >>)

birthPlaceCase(resource, field) ==
    SetKey(resource, "extension",
        << [url |-> "http://hl7.org/fhir/StructureDefinition/patient-birthPlace",
            valueAddress |-> [text |-> field.value]] >>)

\* case 'language': resource.communication = [{language: {coding: [...]}}]
\* (variant: the break is missing and control falls into case 'birthPlace')
languageCase_FallsThrough(resource, field) ==
    birthPlaceCase(
        SetKey(resource, "communication",
            << [language |->
                 [coding |-> << [system  |-> "urn:ietf:bcp:47",
                                 code    |-> field.value,
                                 display |-> field.value] >>]] >>),
        field)

languageCase(resource, field) ==
    SetKey(resource, "communication",
        << [language |->
             [coding |-> << [system  |-> "urn:ietf:bcp:47",
                             code    |-> field.value,
                             display |-> field.value] >>]] >>)

\* The switch on field.key: one arm per case label; a key with no case
\* label leaves the resource as it is.
\* (variant: a default arm stores the value under the field's key)
applyOptionalField_DefaultWrites(resource, field) ==
    CASE field.key = "email"         -> emailCase(resource, field)
      [] field.key = "maritalStatus" -> maritalStatusCase(resource, field)
      [] field.key = "language"      -> languageCase(resource, field)
      [] field.key = "birthPlace"    -> birthPlaceCase(resource, field)
      [] OTHER                       -> SetKey(resource, field.key, field.value)

\* (variant: a field whose value is '' is skipped)
applyOptionalField_SkipsEmptyValue(resource, field) ==
    CASE field.value = ""              -> resource
      [] field.key = "email"           -> emailCase(resource, field)
      [] field.key = "maritalStatus"   -> maritalStatusCase(resource, field)
      [] field.key = "language"        -> languageCase(resource, field)
      [] field.key = "birthPlace"      -> birthPlaceCase(resource, field)
      [] OTHER                         -> resource

applyOptionalField(resource, field) ==
    CASE field.key = "email"         -> emailCase(resource, field)
      [] field.key = "maritalStatus" -> maritalStatusCase(resource, field)
      [] field.key = "language"      -> languageCase(resource, field)
      [] field.key = "birthPlace"    -> birthPlaceCase(resource, field)
      [] OTHER                       -> resource

\* patientData.optionalFields.forEach(...), in sequence order.
RECURSIVE forEachOptionalField(_, _)
forEachOptionalField(resource, fields) ==
    IF fields = <<>> THEN resource
    ELSE forEachOptionalField(applyOptionalField(resource, Head(fields)), Tail(fields))

\* The object literal the function starts from.
\* (variant: family and given name are exchanged)
baseResource_NamesSwapped(pd) ==
    [resourceType |-> "Patient",
     name      |-> << [use |-> "official", family |-> pd.firstName, given |-> <<pd.lastName>>] >>,
     gender    |-> pd.gender,
     birthDate |-> pd.birthDate,
     telecom   |-> << [system |-> "phone", value |-> pd.phone, use |-> "home"] >>,
     address   |-> << [use |-> "home", text |-> pd.address] >>]

baseResource(pd) ==
    [resourceType |-> "Patient",
     name      |-> << [use |-> "official", family |-> pd.lastName, given |-> <<pd.firstName>>] >>,
     gender    |-> pd.gender,
     birthDate |-> pd.birthDate,
     telecom   |-> << [system |-> "phone", value |-> pd.phone, use |-> "home"] >>,
     address   |-> << [use |-> "home", text |-> pd.address] >>]

NoResource == [resourceType |-> "none"]

\* (variant: the resource object outlives the call, so a later call pushes
\* onto the telecom array of the call before)
generateFHIRResource_Stale(pd) ==
    forEachOptionalField(
        IF fhirResource = NoResource THEN baseResource(pd)
        ELSE [baseResource(pd) EXCEPT !["telecom"] = fhirResource.telecom],
        pd.optionalFields)

generateFHIRResource(pd) == forEachOptionalField(baseResource(pd), pd.optionalFields)

(***************************************************************************)
(* Builder harness: the form states the handlers can produce, and calls of *)
(* generateFHIRResource on them.                                           *)
(***************************************************************************)
\* Sequences of pairwise distinct catalog keys.
UniqueKeySeqs ==
    UNION {{ks \in [1..n -> CatalogKeys] : \A i, j \in 1..n : ks[i] = ks[j] => i = j} :
           n \in 0..Cardinality(CatalogKeys)}

LabelOf(k) == (CHOOSE o \in FindOption(k) : TRUE).label

OptionalFieldSeqs ==
    UNION {{[i \in DOMAIN ks |-> [key |-> ks[i], label |-> LabelOf(ks[i]), value |-> vs[i]]] :
              vs \in {f \in [DOMAIN ks -> UNION {OptVals(k) : k \in CatalogKeys}] :
                        \A i \in DOMAIN ks : f[i] \in OptVals(ks[i])}} :
           ks \in UniqueKeySeqs}

NoToast == [title |-> "", description |-> <<>>, variant |-> ""]

\* useState<PatientResponse | null>(null)
NullPatient == [resourceType |-> "null"]

InitBuild ==
    /\ \E fn \in FieldVals("firstName"), ln \in FieldVals("lastName"),
          g \in FieldVals("gender"), bd \in FieldVals("birthDate"),
          ph \in FieldVals("phone"), ad \in FieldVals("address"),
          of \in OptionalFieldSeqs :
            patientData = [firstName |-> fn, lastName |-> ln, gender |-> g, birthDate |-> bd,
                           phone |-> ph, address |-> ad, optionalFields |-> of]
    /\ fhirResource = NoResource
    /\ mode = "create"
    /\ inst = 1
    /\ response = <<>>
    /\ isLoading = FALSE
    /\ pending = {}
    /\ toast = NoToast
    /\ lastAction = "init"
    /\ edits = 0
    /\ patientId = ""
    /\ getResponse = <<>>
    /\ getPatientData = NullPatient
    /\ getIsLoading = FALSE
    /\ pendingGet = {}

\* const fhirResource = generateFHIRResource(), called on the current form state.
Build ==
    /\ fhirResource' = generateFHIRResource(patientData)
    /\ lastAction' = "build"
    /\ UNCHANGED <<mode, inst, patientData, response, isLoading, pending, toast, edits,
                   getVars, pendingGet>>

NextBuild == Build

SpecBuild == InitBuild /\ [][NextBuild]_vars

(***************************************************************************)
(* The same harness on every value of the parameter type: optionalFields   *)
(* is an OptionalField[], so generateFHIRResource is defined on sequences  *)
(* with repeated keys and with keys that have no case label, although the  *)
(* handlers of the form do not produce them.                               *)
(***************************************************************************)
AnyLabel(k) == IF FindOption(k) = {} THEN k ELSE LabelOf(k)

AnyEntries ==
    {[key |-> k, label |-> AnyLabel(k), value |-> v] :
        k \in CatalogKeys \cup OutsideKeys, v \in {"", "x"}}

InitBuildAny ==
    /\ \E filled \in BOOLEAN, n \in 0..MaxAnyLen :
         \E of \in [1..n -> AnyEntries] :
            patientData = [f \in RequiredFields |-> IF filled THEN Samples[f][1] ELSE ""]
                            @@ [optionalFields |-> of]
    /\ fhirResource = NoResource
    /\ mode = "create"
    /\ inst = 1
    /\ response = <<>>
    /\ isLoading = FALSE
    /\ pending = {}
    /\ toast = NoToast
    /\ lastAction = "init"
    /\ edits = 0
    /\ patientId = ""
    /\ getResponse = <<>>
    /\ getPatientData = NullPatient
    /\ getIsLoading = FALSE
    /\ pendingGet = {}

SpecBuildAny == InitBuildAny /\ [][NextBuild]_vars

(***************************************************************************)
(* The application: FHIRPatientApp with the CreatePatientForm it mounts.   *)
(***************************************************************************)
ValidationToast ==
    [title       |-> "Validation Error",
     description |-> <<"Please", "fill", "in", "all", "required", "fields.">>,
     variant     |-> "destructive"]

CreatedToast(pd) ==
    [title       |-> "Patient Created",
     description |-> <<"Patient", pd.firstName, pd.lastName,
                       "has", "been", "created", "successfully.">>,
     variant     |-> ""]

\* response: '' is the empty sequence of characters
EmptyResponse == <<>>

\* JSON.stringify(obj, null, 2): the text of an object, kept as the
\* one-element sequence of the object it prints, so that it is never ''
\* and two texts are equal exactly when the printed objects are.
JSONstringify(obj) == <<obj>>

\* { resourceType: 'Patient', id: ..., meta: {...}, ...fhirResource }: the
\* keys of the spread resource overwrite the ones written before it.
mockResponse(res, now1, now2) ==
    res @@ [resourceType |-> "Patient",
            id   |-> <<"patient-", now1>>,
            meta |-> [versionId |-> "1", lastUpdated |-> now2]]

\* The condition of the if in handleSubmit: !s holds of a string exactly
\* when it is ''.
\* (variant: only the first field is looked at)
RequiredFieldsMissing_FirstOnly(pd) ==
    pd.firstName = ""

RequiredFieldsMissing(pd) ==
    \/ pd.firstName = ""
    \/ pd.lastName = ""
    \/ pd.gender = ""
    \/ pd.birthDate = ""
    \/ pd.phone = ""
    \/ pd.address = ""

Init ==
    /\ mode = "create"
    /\ inst = 1
    /\ patientData = InitialPatientData
    /\ response = EmptyResponse
    /\ isLoading = FALSE
    /\ pending = {}
    /\ toast = NoToast
    /\ lastAction = "init"
    /\ edits = 0
    /\ patientId = ""
    /\ getResponse = <<>>
    /\ getPatientData = NullPatient
    /\ getIsLoading = FALSE
    /\ pendingGet = {}
    /\ fhirResource = NoResource

\* onChange of a required input / onValueChange of the gender select
handleInputChange(field, value) ==
    /\ mode = "create"
    /\ edits < MaxEdits
    /\ value # patientData[field]
    /\ patientData' = [patientData EXCEPT ![field] = value]
    /\ edits' = edits + 1
    /\ toast' = NoToast
    /\ lastAction' = "handleInputChange"
    /\ UNCHANGED <<mode, inst, response, isLoading, pending, fhirResource, getVars, pendingGet>>

\* onChange of the input rendered for optionalFields[index]
handleOptionalFieldChange(index, value) ==
    /\ mode = "create"
    /\ edits < MaxEdits
    /\ index \in DOMAIN patientData.optionalFields
    /\ value # patientData.optionalFields[index].value
    /\ patientData' = [patientData EXCEPT !.optionalFields =
                          [i \in DOMAIN @ |-> IF i = index THEN [@[i] EXCEPT !.value = value]
                                                           ELSE @[i]]]
    /\ edits' = edits + 1
    /\ toast' = NoToast
    /\ lastAction' = "handleOptionalFieldChange"
    /\ UNCHANGED <<mode, inst, response, isLoading, pending, fhirResource, getVars, pendingGet>>

\* onValueChange of the "Add optional field" select, whose items are
\* availableOptionalFields
addOptionalField(fieldKey) ==
    /\ mode = "create"
    /\ edits < MaxEdits
    /\ \E i \in DOMAIN availableOptionalFields(patientData) :
          availableOptionalFields(patientData)[i].key = fieldKey
    /\ \E fieldOption \in FindOption(fieldKey) :
          patientData' = [patientData EXCEPT !.optionalFields =
                             Append(@, [key   |-> fieldOption.key,
                                        label |-> fieldOption.label,
                                        value |-> ""])]
    /\ edits' = edits + 1
    /\ toast' = NoToast
    /\ lastAction' = "addOptionalField"
    /\ UNCHANGED <<mode, inst, response, isLoading, pending, fhirResource, getVars, pendingGet>>

\* onClick of the X button rendered for optionalFields[index]
\* (variant: the last entry is removed whichever button is clicked)
removeOptionalField_RemovesLast(index) ==
    /\ mode = "create"
    /\ edits < MaxEdits
    /\ index \in DOMAIN patientData.optionalFields
    /\ patientData' = [patientData EXCEPT !.optionalFields = SubSeq(@, 1, Len(@) - 1)]
    /\ edits' = edits + 1
    /\ toast' = NoToast
    /\ lastAction' = "removeOptionalField"
    /\ UNCHANGED <<mode, inst, response, isLoading, pending, fhirResource, getVars, pendingGet>>

removeOptionalField(index) ==
    /\ mode = "create"
    /\ edits < MaxEdits
    /\ index \in DOMAIN patientData.optionalFields
    /\ patientData' = [patientData EXCEPT !.optionalFields =
                          [j \in 1..(Len(@) - 1) |-> IF j < index THEN @[j] ELSE @[j + 1]]]
    /\ edits' = edits + 1
    /\ toast' = NoToast
    /\ lastAction' = "removeOptionalField"
    /\ UNCHANGED <<mode, inst, response, isLoading, pending, fhirResource, getVars, pendingGet>>

\* onSubmit of the form, up to the return or the await; the submit button
\* is disabled while isLoading.  The handler is taken on every form state,
\* also on those for which the browser's own check of the inputs' required
\* attribute would hold the submit event back.
\* (variant: the submit button stays enabled while a request is in flight)
handleSubmit_NoLoadingGuard ==
    /\ mode = "create"
    /\ lastAction' = "handleSubmit"
    /\ IF RequiredFieldsMissing(patientData)
       THEN /\ toast' = ValidationToast
            /\ UNCHANGED <<isLoading, pending>>
       ELSE /\ isLoading' = TRUE
            /\ pending' = pending \cup {[inst         |-> inst,
                                         patientData  |-> patientData,
                                         fhirResource |-> generateFHIRResource(patientData)]}
            /\ toast' = NoToast
    /\ UNCHANGED <<mode, inst, patientData, response, edits, fhirResource, getVars, pendingGet>>

\* (variant: setIsLoading(true) runs before the validation)
handleSubmit_LoadingBeforeValidation ==
    /\ mode = "create"
    /\ ~isLoading
    /\ lastAction' = "handleSubmit"
    /\ isLoading' = TRUE
    /\ IF RequiredFieldsMissing(patientData)
       THEN /\ toast' = ValidationToast
            /\ UNCHANGED pending
       ELSE /\ pending' = pending \cup {[inst         |-> inst,
                                         patientData  |-> patientData,
                                         fhirResource |-> generateFHIRResource(patientData)]}
            /\ toast' = NoToast
    /\ UNCHANGED <<mode, inst, patientData, response, edits, fhirResource, getVars, pendingGet>>

handleSubmit ==
    /\ mode = "create"
    /\ ~isLoading
    /\ lastAction' = "handleSubmit"
    /\ IF RequiredFieldsMissing(patientData)
       THEN /\ toast' = ValidationToast
            /\ UNCHANGED <<isLoading, pending>>
       ELSE /\ isLoading' = TRUE
            /\ pending' = pending \cup {[inst         |-> inst,
                                         patientData  |-> patientData,
                                         fhirResource |-> generateFHIRResource(patientData)]}
            /\ toast' = NoToast
    /\ UNCHANGED <<mode, inst, patientData, response, edits, fhirResource, getVars, pendingGet>>

\* the timer of a suspended handleSubmit fires and the rest of the handler
\* runs; its state updates reach the form only if the instance that
\* submitted is still mounted
\* (variant: the resource is built after the await, from the form as it is then)
resolveSubmit_BuildsAtCompletion(req) ==
    /\ req \in pending
    /\ pending' = pending \ {req}
    /\ \E now1, now2 \in 1..MaxClock :
          /\ now1 <= now2
          /\ response' = IF req.inst = inst
                         THEN JSONstringify(mockResponse(generateFHIRResource(patientData),
                                                         now1, now2))
                         ELSE response
    /\ isLoading' = IF req.inst = inst THEN FALSE ELSE isLoading
    /\ toast' = CreatedToast(req.patientData)
    /\ lastAction' = "resolveSubmit"
    /\ UNCHANGED <<mode, inst, patientData, edits, fhirResource, getVars, pendingGet>>

\* (variant: the request is issued again when it completes)
resolveSubmit_Retries(req) ==
    /\ req \in pending
    /\ pending' = pending
    /\ \E now1, now2 \in 1..MaxClock :
          /\ now1 <= now2
          /\ response' = IF req.inst = inst
                         THEN JSONstringify(mockResponse(req.fhirResource, now1, now2))
                         ELSE response
    /\ isLoading' = isLoading
    /\ toast' = CreatedToast(req.patientData)
    /\ lastAction' = "resolveSubmit"
    /\ UNCHANGED <<mode, inst, patientData, edits, fhirResource, getVars, pendingGet>>

\* (variant: the form is cleared after a successful creation)
resolveSubmit_ResetsForm(req) ==
    /\ req \in pending
    /\ pending' = pending \ {req}
    /\ \E now1, now2 \in 1..MaxClock :
          /\ now1 <= now2
          /\ response' = IF req.inst = inst
                         THEN JSONstringify(mockResponse(req.fhirResource, now1, now2))
                         ELSE response
    /\ isLoading' = IF req.inst = inst THEN FALSE ELSE isLoading
    /\ patientData' = IF req.inst = inst THEN InitialPatientData ELSE patientData
    /\ toast' = CreatedToast(req.patientData)
    /\ lastAction' = "resolveSubmit"
    /\ UNCHANGED <<mode, inst, edits, fhirResource, getVars, pendingGet>>

resolveSubmit(req) ==
    /\ req \in pending
    /\ pending' = pending \ {req}
    /\ \E now1, now2 \in 1..MaxClock :
          /\ now1 <= now2
          /\ response' = IF req.inst = inst
                         THEN JSONstringify(mockResponse(req.fhirResource, now1, now2))
                         ELSE response
    /\ isLoading' = IF req.inst = inst THEN FALSE ELSE isLoading
    /\ toast' = CreatedToast(req.patientData)
    /\ lastAction' = "resolveSubmit"
    /\ UNCHANGED <<mode, inst, patientData, edits, fhirResource, getVars, pendingGet>>

(***************************************************************************)
(* GetPatientForm.                                                         *)
(***************************************************************************)
\* The values typed into the Patient ID input: nothing, a blank, an id.
PatientIdVals == {"", " ", "patient-1"}

\* String.prototype.trim on the values above: the blank trims to ''.
trim(str) == IF str = " " THEN "" ELSE str

PatientIdToast ==
    [title       |-> "Validation Error",
     description |-> <<"Please", "enter", "a", "Patient", "ID.">>,
     variant     |-> "destructive"]

RetrievedToast(id) ==
    [title       |-> "Patient Retrieved",
     description |-> <<"Successfully", "retrieved", "patient", "data", "for", "ID:", id>>,
     variant     |-> ""]

\* const mockPatient: PatientResponse = {...}
mockPatient(id, now) ==
    [resourceType |-> "Patient",
     id        |-> id,
     meta      |-> [versionId |-> "1", lastUpdated |-> now],
     name      |-> << [use |-> "official", family |-> "Doe", given |-> <<"John">>] >>,
     gender    |-> "male",
     birthDate |-> "1980-01-15",
     telecom   |-> << [system |-> "phone", value |-> "+1-555-123-4567", use |-> "home"],
                      [system |-> "email", value |-> "john.doe@email.com", use |-> "home"] >>,
     address   |-> << [use |-> "home", text |-> "123 Main Street, Anytown, ST 12345"] >>]

\* onChange of the Patient ID input
setPatientId(value) ==
    /\ mode = "get"
    /\ edits < MaxEdits
    /\ value # patientId
    /\ patientId' = value
    /\ edits' = edits + 1
    /\ toast' = NoToast
    /\ lastAction' = "setPatientId"
    /\ UNCHANGED <<mode, inst, patientData, response, isLoading, pending, fhirResource,
                   getResponse, getPatientData, getIsLoading, pendingGet>>

\* onSubmit of the get form, up to the return or the await; the submit
\* button is disabled while isLoading
\* (variant: the previous result is left on screen during the request)
handleSubmitGet_KeepsResult ==
    /\ mode = "get"
    /\ ~getIsLoading
    /\ lastAction' = "handleSubmitGet"
    /\ IF trim(patientId) = ""
       THEN /\ toast' = PatientIdToast
            /\ UNCHANGED <<getIsLoading, getResponse, getPatientData, pendingGet>>
       ELSE /\ getIsLoading' = TRUE
            /\ UNCHANGED <<getResponse, getPatientData>>
            /\ pendingGet' = pendingGet \cup {[inst |-> inst, patientId |-> patientId]}
            /\ toast' = NoToast
    /\ UNCHANGED <<mode, inst, patientData, response, isLoading, pending, edits, fhirResource,
                   patientId>>

handleSubmitGet ==
    /\ mode = "get"
    /\ ~getIsLoading
    /\ lastAction' = "handleSubmitGet"
    /\ IF trim(patientId) = ""
       THEN /\ toast' = PatientIdToast
            /\ UNCHANGED <<getIsLoading, getResponse, getPatientData, pendingGet>>
       ELSE /\ getIsLoading' = TRUE
            /\ getResponse' = EmptyResponse
            /\ getPatientData' = NullPatient
            /\ pendingGet' = pendingGet \cup {[inst |-> inst, patientId |-> patientId]}
            /\ toast' = NoToast
    /\ UNCHANGED <<mode, inst, patientData, response, isLoading, pending, edits, fhirResource,
                   patientId>>

\* the timer of a suspended get handleSubmit fires and the rest of the
\* handler runs; its state updates reach the form only if the instance
\* that submitted is still mounted
\* (variant: the state updates are applied whichever form is mounted)
resolveSubmitGet_IgnoresUnmount(req) ==
    /\ req \in pendingGet
    /\ pendingGet' = pendingGet \ {req}
    /\ \E now \in 1..MaxClock :
          /\ getPatientData' = mockPatient(req.patientId, now)
          /\ getResponse' = JSONstringify(mockPatient(req.patientId, now))
    /\ getIsLoading' = FALSE
    /\ toast' = RetrievedToast(req.patientId)
    /\ lastAction' = "resolveSubmitGet"
    /\ UNCHANGED <<mode, inst, patientData, response, isLoading, pending, edits, fhirResource,
                   patientId>>

resolveSubmitGet(req) ==
    /\ req \in pendingGet
    /\ pendingGet' = pendingGet \ {req}
    /\ \E now \in 1..MaxClock :
          IF req.inst = inst
          THEN /\ getPatientData' = mockPatient(req.patientId, now)
               /\ getResponse' = JSONstringify(mockPatient(req.patientId, now))
          ELSE UNCHANGED <<getPatientData, getResponse>>
    /\ getIsLoading' = IF req.inst = inst THEN FALSE ELSE getIsLoading
    /\ toast' = RetrievedToast(req.patientId)
    /\ lastAction' = "resolveSubmitGet"
    /\ UNCHANGED <<mode, inst, patientData, response, isLoading, pending, edits, fhirResource,
                   patientId>>

\* onClick of a mode button: the other form is mounted in place of the
\* current one, with fresh state
\* (variant: both forms stay mounted and the inactive one is only hidden)
setMode_KeepsForms(m) ==
    /\ m # mode
    /\ mode' = m
    /\ toast' = NoToast
    /\ lastAction' = "setMode"
    /\ UNCHANGED <<inst, patientData, response, isLoading, pending, pendingGet, edits,
                   fhirResource, getVars>>

setMode(m) ==
    /\ m # mode
    /\ inst < MaxMounts
    /\ mode' = m
    /\ inst' = inst + 1
    /\ patientData' = InitialPatientData
    /\ response' = EmptyResponse
    /\ isLoading' = FALSE
    /\ toast' = NoToast
    /\ patientId' = ""
    /\ getResponse' = EmptyResponse
    /\ getPatientData' = NullPatient
    /\ getIsLoading' = FALSE
    /\ lastAction' = "setMode"
    /\ UNCHANGED <<pending, pendingGet, edits, fhirResource>>

Next ==
    \/ \E field \in RequiredFields : \E value \in TypedVals(field) :
          handleInputChange(field, value)
    \/ \E index \in 1..Len(optionalFieldOptions) :
          \E value \in UNION {OptVals(k) : k \in CatalogKeys} :
             /\ index \in DOMAIN patientData.optionalFields
             /\ value \in OptVals(patientData.optionalFields[index].key)
             /\ handleOptionalFieldChange(index, value)
    \/ \E fieldKey \in CatalogKeys : addOptionalField(fieldKey)
    \/ \E index \in 1..Len(optionalFieldOptions) : removeOptionalField(index)
    \/ handleSubmit
    \/ \E req \in pending : resolveSubmit(req)
    \/ \E value \in PatientIdVals : setPatientId(value)
    \/ handleSubmitGet
    \/ \E req \in pendingGet : resolveSubmitGet(req)
    \/ \E m \in {"create", "get"} : setMode(m)

Spec == Init /\ [][Next]_vars

(***************************************************************************)
(* Scheduling: a timer set by setTimeout fires, so the continuation of     *)
(* every suspended handleSubmit eventually runs.  A form instance has at   *)
(* most one request in flight, so fairness is stated per instance.         *)
(***************************************************************************)
Fairness ==
    \A i \in 1..MaxMounts :
        /\ WF_vars(\E req \in pending : req.inst = i /\ resolveSubmit(req))
        /\ WF_vars(\E req \in pendingGet : req.inst = i /\ resolveSubmitGet(req))

SpecLive == Init /\ [][Next]_vars /\ Fairness

(***************************************************************************)
(* The catch and finally blocks of the create handleSubmit.  The promise   *)
(* awaited at line 180 only ever resolves, so no step of Spec enters them; *)
(* SpecFail adds the step they would take if the awaited promise rejected. *)
(***************************************************************************)
ErrorToast ==
    [title       |-> "Error",
     description |-> <<"Failed", "to", "create", "patient.", "Please", "try", "again.">>,
     variant     |-> "destructive"]

\* the awaited promise rejects: catch, then finally
\* (variant: there is no finally block)
rejectSubmit_NoFinally(req) ==
    /\ req \in pending
    /\ pending' = pending \ {req}
    /\ toast' = ErrorToast
    /\ lastAction' = "rejectSubmit"
    /\ UNCHANGED <<mode, inst, patientData, response, isLoading, edits, fhirResource,
                   getVars, pendingGet>>

rejectSubmit(req) ==
    /\ req \in pending
    /\ pending' = pending \ {req}
    /\ toast' = ErrorToast
    /\ isLoading' = IF req.inst = inst THEN FALSE ELSE isLoading
    /\ lastAction' = "rejectSubmit"
    /\ UNCHANGED <<mode, inst, patientData, response, edits, fhirResource, getVars, pendingGet>>

NextFail ==
    \/ Next
    \/ \E req \in pending : rejectSubmit(req)

SpecFail == Init /\ [][NextFail]_vars

(***************************************************************************)
(* Properties of generateFHIRResource, checked under SpecBuild.            *)
(***************************************************************************)
Built == fhirResource # NoResource

\* every required field is a non-empty string
AllRequiredFilled(pd) == \A f \in RequiredFields : pd[f] # ""

\* the indices of the optionalFields entries with key k
EntriesOf(pd, k) == {i \in DOMAIN pd.optionalFields : pd.optionalFields[i].key = k}

HasEntry(pd, k) == EntriesOf(pd, k) # {}

PhoneEntry(pd) == [system |-> "phone", value |-> pd.phone, use |-> "home"]

\* C1: for every form state whose six required fields are non-empty, the
\* built resource has resourceType "Patient", exactly one name entry
\* {use:"official", family: lastName, given: [firstName]} whose given array
\* has length 1, gender and birthDate equal to the form values, and exactly
\* one address entry {use:"home", text: address}.
C1_RequiredFieldsMapped ==
    (Built /\ AllRequiredFilled(patientData)) =>
        /\ fhirResource.resourceType = "Patient"
        /\ Len(fhirResource.name) = 1
        /\ fhirResource.name[1] = [use |-> "official", family |-> patientData.lastName,
                                   given |-> <<patientData.firstName>>]
        /\ Len(fhirResource.name[1].given) = 1
        /\ fhirResource.gender = patientData.gender
        /\ fhirResource.birthDate = patientData.birthDate
        /\ Len(fhirResource.address) = 1
        /\ fhirResource.address[1] = [use |-> "home", text |-> patientData.address]

\* a resource was built from a valid form whose first and last name differ
C1_Witness ==
    /\ Built
    /\ AllRequiredFilled(patientData)
    /\ patientData.firstName # patientData.lastName
    /\ patientData.gender # patientData.birthDate

\* C2: for every form state whose optionalFields contain an email entry with
\* value v, the built telecom has length exactly 2: first the phone entry
\* {system:"phone", value: phone, use:"home"}, second {system:"email",
\* value: v, use:"home"}.
C2_EmailAppendsSecondTelecom ==
    Built =>
        \A i \in EntriesOf(patientData, "email") :
            /\ Len(fhirResource.telecom) = 2
            /\ fhirResource.telecom[1] = PhoneEntry(patientData)
            /\ fhirResource.telecom[2] = [system |-> "email",
                                          value  |-> patientData.optionalFields[i].value,
                                          use    |-> "home"]

\* a resource was built from a form with a non-empty email entry that is not
\* the first optional field
C2_Witness ==
    /\ Built
    /\ \E i \in EntriesOf(patientData, "email") :
          i > 1 /\ patientData.optionalFields[i].value = "a@b.com"
    /\ patientData.phone # ""

\* C3: the keys maritalStatus, communication and extension are in the built
\* resource exactly when an optional field with key maritalStatus, language
\* or birthPlace respectively is in optionalFields, whatever its value; with
\* no optional fields telecom has length 1 and none of the three keys is
\* present.
C3_ConditionalKeysPresence ==
    Built =>
        /\ ("maritalStatus" \in DOMAIN fhirResource) <=> HasEntry(patientData, "maritalStatus")
        /\ ("communication" \in DOMAIN fhirResource) <=> HasEntry(patientData, "language")
        /\ ("extension" \in DOMAIN fhirResource) <=> HasEntry(patientData, "birthPlace")
        /\ patientData.optionalFields = <<>> =>
              /\ Len(fhirResource.telecom) = 1
              /\ {"maritalStatus", "communication", "extension"} \cap DOMAIN fhirResource = {}

\* a resource was built from a form with a maritalStatus entry of empty
\* value, a birthPlace entry, and no language entry
C3_Witness ==
    /\ Built
    /\ \E i \in EntriesOf(patientData, "maritalStatus") : patientData.optionalFields[i].value = ""
    /\ HasEntry(patientData, "birthPlace")
    /\ ~HasEntry(patientData, "language")
    /\ "maritalStatus" \in DOMAIN fhirResource
    /\ "communication" \notin DOMAIN fhirResource

Coding(sys, v) == [system |-> sys, code |-> v, display |-> v]

\* C7: for every form state whose optionalFields contain a language entry
\* with value v, the built resource has communication of length 1 whose
\* language.coding has length 1 and equals {system:"urn:ietf:bcp:47",
\* code: v, display: v}; the language entry alone introduces neither a
\* maritalStatus nor an extension key.
C7_LanguageCommunication ==
    Built =>
        \A i \in EntriesOf(patientData, "language") :
            /\ Len(fhirResource.communication) = 1
            /\ Len(fhirResource.communication[1].language.coding) = 1
            /\ fhirResource.communication[1].language.coding[1] =
                  Coding("urn:ietf:bcp:47", patientData.optionalFields[i].value)
            /\ ~HasEntry(patientData, "maritalStatus") => "maritalStatus" \notin DOMAIN fhirResource
            /\ ~HasEntry(patientData, "birthPlace") => "extension" \notin DOMAIN fhirResource

\* a resource was built from a form whose only optional field is language "en"
C7_Witness ==
    /\ Built
    /\ Len(patientData.optionalFields) = 1
    /\ patientData.optionalFields[1].key = "language"
    /\ patientData.optionalFields[1].value = "en"
    /\ fhirResource.communication[1].language.coding[1].code = "en"

\* C8: for every form state whose optionalFields contain a maritalStatus
\* entry with value v, the built resource has maritalStatus.coding of length
\* 1 equal to {system: the v3-MaritalStatus URI, code: v, display: v}.
C8_MaritalStatusCoding ==
    Built =>
        \A i \in EntriesOf(patientData, "maritalStatus") :
            /\ Len(fhirResource.maritalStatus.coding) = 1
            /\ fhirResource.maritalStatus.coding[1] =
                  Coding("http://terminology.hl7.org/CodeSystem/v3-MaritalStatus",
                         patientData.optionalFields[i].value)

\* a resource was built from a form with maritalStatus "M" among other fields
C8_Witness ==
    /\ Built
    /\ \E i \in EntriesOf(patientData, "maritalStatus") : patientData.optionalFields[i].value = "M"
    /\ Len(patientData.optionalFields) > 1
    /\ fhirResource.maritalStatus.coding[1].code = "M"

\* C9: for every form state whose optionalFields contain a birthPlace entry
\* with value v, the built resource has extension of length 1 equal to
\* {url: the patient-birthPlace URL, valueAddress: {text: v}}.
C9_BirthPlaceExtension ==
    Built =>
        \A i \in EntriesOf(patientData, "birthPlace") :
            /\ Len(fhirResource.extension) = 1
            /\ fhirResource.extension[1] =
                  [url |-> "http://hl7.org/fhir/StructureDefinition/patient-birthPlace",
                   valueAddress |-> [text |-> patientData.optionalFields[i].value]]

\* a resource was built from a form with birthPlace "Boston" among other fields
C9_Witness ==
    /\ Built
    /\ \E i \in EntriesOf(patientData, "birthPlace") : patientData.optionalFields[i].value = "Boston"
    /\ Len(patientData.optionalFields) > 1
    /\ fhirResource.extension[1].valueAddress.text = "Boston"

\* the top-level keys on which two resources differ
ChangedKeys(r1, r2) ==
    {k \in DOMAIN r1 \cup DOMAIN r2 :
        \/ k \notin DOMAIN r1
        \/ k \notin DOMAIN r2
        \/ r1[k] # r2[k]}

\* the form state without its i-th optional field
WithoutEntry(pd, i) ==
    [pd EXCEPT !.optionalFields =
        [j \in 1..(Len(pd.optionalFields) - 1) |->
            IF j < i THEN pd.optionalFields[j] ELSE pd.optionalFields[j + 1]]]

\* the top-level keys that a field of key k and value v changes in resource r
CaseOutput(r, k, v) ==
    ChangedKeys(r, applyOptionalField(r, [key |-> k, label |-> "", value |-> v]))

\* C10: the catalog and the dispatch cases are in 1:1 correspondence: every
\* optional field of a catalog key changes the output through one case of
\* its own (it changes exactly one top-level key, and two fields of
\* different keys change different top-level keys), and a field whose key
\* is outside the catalog changes nothing.
C10_CatalogMatchesCases ==
    Built =>
        /\ \A i \in DOMAIN patientData.optionalFields :
              /\ patientData.optionalFields[i].key \in CatalogKeys
              /\ Cardinality(ChangedKeys(generateFHIRResource(WithoutEntry(patientData, i)),
                                         fhirResource)) = 1
        /\ \A k \in CatalogKeys : \A v \in OptVals(k) :
              Cardinality(CaseOutput(baseResource(patientData), k, v)) = 1
        /\ Cardinality({CaseOutput(baseResource(patientData), k, "") : k \in CatalogKeys})
              = Cardinality(CatalogKeys)
        /\ \A k \in OutsideKeys : \A v \in OptVals(k) :
              applyOptionalField(fhirResource, [key |-> k, label |-> "", value |-> v]) = fhirResource

\* a resource was built from a form holding all four catalog fields, and
\* all four conditional parts of the output are there
C10_Witness ==
    /\ Built
    /\ Len(patientData.optionalFields) = Cardinality(CatalogKeys)
    /\ Len(fhirResource.telecom) = 2
    /\ {"maritalStatus", "communication", "extension"} \subseteq DOMAIN fhirResource

\* the keys every resource has
BaseKeys == {"resourceType", "name", "gender", "birthDate", "telecom", "address"}

EmptyRequired(pd) == {f \in RequiredFields : pd[f] = ""}

\* the required fields that a notification names in its description
NamedFields(t) == {f \in RequiredFields : \E i \in DOMAIN t.description : t.description[i] = f}

\* the requests of the mounted form instance that are in flight
OwnPending == {req \in pending : req.inst = inst}

\* C4 as stated: the validation outcome of a submit is success when all six
\* required fields are non-empty, and otherwise identifies exactly the set
\* of required fields that are empty.
C4_ReportsEveryMissingField ==
    lastAction = "handleSubmit" =>
        IF EmptyRequired(patientData) = {}
        THEN toast = NoToast /\ isLoading
        ELSE NamedFields(toast) = EmptyRequired(patientData)

\* C4 as amended: the validation outcome of a submit is success when all
\* six required fields are non-empty, and otherwise the one generic
\* 'Validation Error' notification 'Please fill in all required fields.',
\* the same whichever fields are empty, which names none of them.
C4_GenericValidationError ==
    lastAction = "handleSubmit" =>
        IF EmptyRequired(patientData) = {}
        THEN toast = NoToast /\ isLoading
        ELSE /\ toast.title = "Validation Error"
             /\ toast.description = <<"Please", "fill", "in", "all", "required", "fields.">>
             /\ toast.variant = "destructive"
             /\ NamedFields(toast) = {}

\* a submit was rejected on a form with several, but not all, required
\* fields empty
C4_Witness ==
    /\ lastAction = "handleSubmit"
    /\ toast = ValidationToast
    /\ Cardinality(EmptyRequired(patientData)) \in 2..5
    /\ patientData.firstName # ""

\* C5: a submit proceeds to the simulated operation if and only if all six
\* required fields are non-empty: then isLoading becomes true and exactly
\* one request, carrying the resource built from the form, is started; when
\* at least one field is empty a validation error is reported, isLoading
\* stays false, no request is started and response and the form state are
\* left unchanged.
C5_SubmitProceedsIffValid ==
    [][lastAction' = "handleSubmit" =>
         IF EmptyRequired(patientData) = {}
         THEN /\ isLoading'
              /\ toast' = NoToast
              /\ pending \subseteq pending'
              /\ Cardinality(pending' \ pending) = 1
              /\ \A req \in pending' \ pending :
                    /\ req.inst = inst
                    /\ req.fhirResource = generateFHIRResource(patientData)
         ELSE /\ toast' = ValidationToast
              /\ ~isLoading /\ ~isLoading'
              /\ pending' = pending
              /\ response' = response
              /\ patientData' = patientData]_vars

\* a submit was rejected on a form with exactly one required field empty
\* that shows the response of an earlier creation: nothing is in flight
C5_Witness ==
    /\ lastAction = "handleSubmit"
    /\ toast = ValidationToast
    /\ Cardinality(EmptyRequired(patientData)) = 1
    /\ response # EmptyResponse
    /\ ~isLoading
    /\ OwnPending = {}

(***************************************************************************)
(* Properties of the form state and of the requests, checked under Spec.   *)
(***************************************************************************)
\* the keys of the optional fields of a form state
KeysOf(pd) == {pd.optionalFields[i].key : i \in DOMAIN pd.optionalFields}

\* C11: in every reachable state of the create form the keys of
\* patientData.optionalFields are pairwise distinct and each is a catalog
\* key, so the sequence never has more than four entries.
C11_OptionalKeysUniqueInCatalog ==
    /\ \A i, j \in DOMAIN patientData.optionalFields :
          patientData.optionalFields[i].key = patientData.optionalFields[j].key => i = j
    /\ KeysOf(patientData) \subseteq CatalogKeys
    /\ Len(patientData.optionalFields) <= 4

\* all four catalog fields have been added, the last one just now
C11_Witness ==
    /\ lastAction = "addOptionalField"
    /\ Len(patientData.optionalFields) = 4
    /\ KeysOf(patientData) = CatalogKeys

\* C12 as stated: when the submission of a valid form completes on the
\* mounted create form, patientData is back to its initial value.
C12_FormDiscardedOnSubmit ==
    [][(lastAction' = "resolveSubmit" /\ isLoading /\ ~isLoading') =>
          patientData' = InitialPatientData]_vars

\* C12 as amended: the create form's state is kept on submit: neither the
\* submit nor the completion of the request changes patientData, so after
\* a submission completes the form still holds what the user entered.
C12_FormKeptOnSubmit ==
    [][lastAction' \in {"handleSubmit", "resolveSubmit"} =>
          patientData' = patientData]_vars

\* a submission has completed on the mounted form, which still holds all
\* six required values
C12_Witness ==
    /\ lastAction = "resolveSubmit"
    /\ mode = "create"
    /\ response # EmptyResponse
    /\ ~isLoading
    /\ AllRequiredFilled(patientData)

\* C13: form state is reset only on navigation: a change of mode mounts the
\* other form with its initial state (empty fields, no optional fields,
\* empty response, isLoading false), and in every other step a required
\* field changes only by handleInputChange of that very field, the optional
\* fields only by their three handlers and the patient ID only by its
\* input; submits and completions reset nothing.
C13_ResetOnlyOnNavigation ==
    [][/\ mode' # mode =>
            /\ lastAction' = "setMode"
            /\ patientData' = InitialPatientData
            /\ response' = EmptyResponse
            /\ ~isLoading'
            /\ patientId' = ""
            /\ getResponse' = EmptyResponse
            /\ getPatientData' = NullPatient
            /\ ~getIsLoading'
       /\ mode' = mode =>
            /\ \A f \in RequiredFields :
                  patientData'[f] # patientData[f] =>
                     /\ lastAction' = "handleInputChange"
                     /\ \A g \in RequiredFields \ {f} : patientData'[g] = patientData[g]
                     /\ patientData'.optionalFields = patientData.optionalFields
            /\ patientData'.optionalFields # patientData.optionalFields =>
                  lastAction' \in {"addOptionalField", "removeOptionalField",
                                   "handleOptionalFieldChange"}
            /\ patientId' # patientId => lastAction' = "setPatientId"]_vars

\* the create form has just been mounted again, empty, while the request of
\* an earlier create form, submitted with all fields filled, is in flight
C13_Witness ==
    /\ lastAction = "setMode"
    /\ mode = "create"
    /\ patientData = InitialPatientData
    /\ response = EmptyResponse
    /\ ~isLoading
    /\ \E req \in pending : req.inst < inst /\ AllRequiredFilled(req.patientData)

\* C14: when the awaited promise of a create submission rejects, the
\* failure is reported with the generic error notification and nothing of
\* the submission is retained: response is left as it was, no 'Patient
\* Created' notification is emitted, the request is gone, the form is
\* untouched and isLoading of the submitting form, if still mounted, is
\* false.
C14_FailureLeavesNoPartialState ==
    [][lastAction' = "rejectSubmit" =>
          /\ toast'.title = "Error"
          /\ toast'.description = <<"Failed", "to", "create", "patient.", "Please", "try", "again.">>
          /\ toast'.variant = "destructive"
          /\ response' = response
          /\ patientData' = patientData
          /\ pending' \subseteq pending
          /\ Cardinality(pending \ pending') = 1
          /\ \A req \in pending \ pending' : req.inst = inst => (isLoading /\ ~isLoading')
          /\ OwnPending' = {}]_vars

\* the only submission of the mounted form has failed: the error is shown,
\* there is no response, nothing is in flight and the form is idle
C14_Witness ==
    /\ lastAction = "rejectSubmit"
    /\ mode = "create"
    /\ toast = ErrorToast
    /\ response = EmptyResponse
    /\ ~isLoading
    /\ pending = {}
    /\ AllRequiredFilled(patientData)

\* the form instance i has a request in flight
InFlight(i) ==
    \/ \E req \in pending : req.inst = i
    \/ \E req \in pendingGet : req.inst = i

\* C15: every submit that passes validation, in the create form and in the
\* get form, starts exactly one request; requests are started by submits
\* only (none is retried); a request leaves only by its completion, which
\* emits exactly one outcome notification and leaves isLoading false on
\* the form that submitted it if that form is still mounted; and every
\* request started eventually completes.
C15_OneRequestOneOutcome ==
    /\ [][/\ lastAction' = "handleSubmit" /\ AllRequiredFilled(patientData) =>
                /\ pending \subseteq pending'
                /\ Cardinality(pending' \ pending) = 1
          /\ lastAction' = "handleSubmitGet" /\ trim(patientId) # "" =>
                /\ pendingGet \subseteq pendingGet'
                /\ Cardinality(pendingGet' \ pendingGet) = 1
          /\ (pending' \ pending) # {} => lastAction' = "handleSubmit"
          /\ (pendingGet' \ pendingGet) # {} => lastAction' = "handleSubmitGet"
          /\ (pending \ pending') # {} => lastAction' = "resolveSubmit"
          /\ (pendingGet \ pendingGet') # {} => lastAction' = "resolveSubmitGet"
          /\ lastAction' = "resolveSubmit" =>
                /\ pending' \subseteq pending
                /\ Cardinality(pending \ pending') = 1
                /\ toast'.title \in {"Patient Created", "Error"}
                /\ \A req \in pending \ pending' : req.inst = inst => ~isLoading'
          /\ lastAction' = "resolveSubmitGet" =>
                /\ pendingGet' \subseteq pendingGet
                /\ Cardinality(pendingGet \ pendingGet') = 1
                /\ toast'.title \in {"Patient Retrieved", "Error"}
                /\ \A req \in pendingGet \ pendingGet' : req.inst = inst => ~getIsLoading'
          /\ lastAction' \notin {"resolveSubmit", "resolveSubmitGet"} =>
                toast'.title \notin {"Patient Created", "Patient Retrieved", "Error"}]_vars
    /\ \A i \in 1..MaxMounts : InFlight(i) ~> ~InFlight(i)

\* a get request has completed on its form while the request of an earlier
\* create form is still in flight
C15_Witness ==
    /\ lastAction = "resolveSubmitGet"
    /\ mode = "get"
    /\ toast.title = "Patient Retrieved"
    /\ ~getIsLoading
    /\ pendingGet = {}
    /\ pending # {}

(***************************************************************************)
(* Properties of generateFHIRResource on every OptionalField[], checked    *)
(* under SpecBuildAny.                                                     *)
(***************************************************************************)
\* the indices of the optionalFields entries whose key has no case label
OutsideEntries(pd) ==
    {i \in DOMAIN pd.optionalFields : pd.optionalFields[i].key \notin CatalogKeys}

\* C16: an optionalFields entry whose key is outside the catalog is a no-op
\* for generateFHIRResource: the resource built with the entry equals the
\* resource built from the same form state with that entry removed, and
\* the call returns a Patient resource.
C16_UnknownKeyIsNoOp ==
    Built =>
        /\ fhirResource.resourceType = "Patient"
        /\ \A i \in OutsideEntries(patientData) :
              fhirResource = generateFHIRResource(WithoutEntry(patientData, i))

\* a resource was built from a form state that has an entry of an unknown
\* key with a non-empty value between two entries of catalog keys
C16_Witness ==
    /\ Built
    /\ Len(patientData.optionalFields) = 3
    /\ patientData.optionalFields[1].key = "email"
    /\ patientData.optionalFields[2].key \in OutsideKeys
    /\ patientData.optionalFields[2].value # ""
    /\ patientData.optionalFields[3].key = "language"

\* the keys of optionalFields are pairwise distinct
DistinctKeys(pd) ==
    \A i, j \in DOMAIN pd.optionalFields :
        pd.optionalFields[i].key = pd.optionalFields[j].key => i = j

\* the permutations of 1..n
Perms(n) == {p \in [1..n -> 1..n] : \A i, j \in 1..n : p[i] = p[j] => i = j}

\* pd with its optionalFields rearranged by p
Reordered(pd, p) ==
    [pd EXCEPT !.optionalFields = [i \in DOMAIN p |-> pd.optionalFields[p[i]]]]

\* C17: for a form state whose optionalFields have pairwise distinct keys,
\* every permutation of optionalFields yields the same resource.
C17_OrderIndependent ==
    Built /\ DistinctKeys(patientData) =>
        \A p \in Perms(Len(patientData.optionalFields)) :
            generateFHIRResource(Reordered(patientData, p)) = fhirResource

\* a resource was built from the four catalog keys, with values, in an
\* order other than the catalog's
C17_Witness ==
    /\ Built
    /\ DistinctKeys(patientData)
    /\ Len(patientData.optionalFields) = 4
    /\ KeysOf(patientData) = CatalogKeys
    /\ patientData.optionalFields[1].key = "birthPlace"
    /\ patientData.optionalFields[4].key = "email"
    /\ \A i \in 1..4 : patientData.optionalFields[i].value # ""

(***************************************************************************)
(* Properties of the requests in flight, checked under Spec and SpecLive.  *)
(***************************************************************************)
\* C18: the create response is a snapshot of the form at submit time: the
\* request started by a submit carries the form state of that moment, and
\* the response its completion stores on the submitting form has every key
\* of generateFHIRResource of that form state with the same value, plus id
\* and meta with versionId "1", whatever the form holds at completion.
C18_ResponseIsSubmitSnapshot ==
    [][/\ \A req \in pending' \ pending :
            /\ req.inst = inst
            /\ req.patientData = patientData
       /\ \A req \in pending \ pending' :
            req.inst = inst =>
               LET built == generateFHIRResource(req.patientData)
               IN  /\ Len(response') = 1
                   /\ DOMAIN response'[1] = DOMAIN built \cup {"id", "meta"}
                   /\ \A k \in DOMAIN built : response'[1][k] = built[k]
                   /\ response'[1].id[1] = "patient-"
                   /\ response'[1].meta.versionId = "1"]_vars

\* a request has completed on its form after firstName was edited while it
\* was pending
C18_Witness ==
    /\ lastAction = "resolveSubmit"
    /\ mode = "create"
    /\ response # EmptyResponse
    /\ response[1].name[1].given[1] # patientData.firstName

\* the get requests of the mounted form instance
OwnPendingGet == {req \in pendingGet : req.inst = inst}

\* the requests of either kind started by the form instance i
RequestsOf(i) ==
    Cardinality({req \in pending : req.inst = i})
        + Cardinality({req \in pendingGet : req.inst = i})

\* C19: a form instance has at most one request in flight; on the mounted
\* form isLoading (getIsLoading on the get form) is true exactly while its
\* request is pending; and a submit starts a request only when none of the
\* form's requests is pending.
C19_OneRequestPerInstance ==
    /\ [](/\ \A i \in 1..MaxMounts : RequestsOf(i) <= 1
          /\ isLoading <=> OwnPending # {}
          /\ getIsLoading <=> OwnPendingGet # {})
    /\ [][/\ (pending' \ pending) # {} => ~isLoading /\ OwnPending = {}
          /\ (pendingGet' \ pendingGet) # {} => ~getIsLoading /\ OwnPendingGet = {}]_vars

\* the create form has its one request in flight while the request of an
\* earlier get form is still pending
C19_Witness ==
    /\ mode = "create"
    /\ isLoading
    /\ Cardinality(OwnPending) = 1
    /\ pendingGet # {}

\* the form state of both forms
formState == <<patientData, response, isLoading, getVars>>

\* C20: switching the mode cancels no request and mounts the other form
\* with its initial state; a request whose form is no longer mounted still
\* completes and emits its notification, and its completion changes
\* nothing of the form state.
C20_StaleCompletionLeavesForms ==
    /\ [][/\ mode' # mode =>
                /\ pending' = pending /\ pendingGet' = pendingGet
                /\ patientData' = InitialPatientData
                /\ response' = EmptyResponse /\ ~isLoading'
                /\ patientId' = "" /\ getResponse' = EmptyResponse
                /\ getPatientData' = NullPatient /\ ~getIsLoading'
          /\ \A req \in pending \ pending' :
                req.inst # inst =>
                   /\ toast' = CreatedToast(req.patientData)
                   /\ UNCHANGED <<mode, inst, formState>>
          /\ \A req \in pendingGet \ pendingGet' :
                req.inst # inst =>
                   /\ toast' = RetrievedToast(req.patientId)
                   /\ UNCHANGED <<mode, inst, formState>>]_vars
    /\ \A i \in 1..MaxMounts : (inst # i /\ InFlight(i)) ~> ~InFlight(i)

\* the create request has completed after the switch to the get form, which
\* is as it was mounted
C20_Witness ==
    /\ lastAction = "resolveSubmit"
    /\ mode = "get"
    /\ inst > 1
    /\ toast.title = "Patient Created"
    /\ patientId = ""
    /\ getResponse = EmptyResponse
    /\ getPatientData = NullPatient
    /\ ~getIsLoading

(***************************************************************************)
(* Properties of the get form, checked under Spec.                         *)
(***************************************************************************)
\* C21: in the get form a submit with an empty or whitespace-only patient
\* ID emits the validation error and changes no state; an accepted submit
\* clears response and patientData before the delay; in every reachable
\* state response is non-empty exactly when patientData is non-null, and
\* both are empty while the form's request is pending; on success
\* patientData.id is the ID that was entered when the form was submitted
\* and response is its serialisation.
C21_GetFormResultConsistent ==
    /\ [](/\ getResponse # EmptyResponse <=> getPatientData # NullPatient
          /\ OwnPendingGet # {} =>
                getResponse = EmptyResponse /\ getPatientData = NullPatient)
    /\ [][/\ lastAction' = "handleSubmitGet" /\ trim(patientId) = "" =>
                /\ toast' = PatientIdToast
                /\ UNCHANGED <<mode, inst, formState, pending, pendingGet>>
          /\ lastAction' = "handleSubmitGet" /\ trim(patientId) # "" =>
                /\ getResponse' = EmptyResponse
                /\ getPatientData' = NullPatient
                /\ getIsLoading'
                /\ pendingGet' \ pendingGet = {[inst |-> inst, patientId |-> patientId]}
          /\ \A req \in pendingGet \ pendingGet' :
                req.inst = inst =>
                   /\ getPatientData'.resourceType = "Patient"
                   /\ getPatientData'.id = req.patientId
                   /\ getResponse' = JSONstringify(getPatientData')]_vars

\* a retrieval has succeeded on the get form, and the patient shown
\* has the ID of the submit although the input was cleared while the
\* request was pending
C21_Witness ==
    /\ lastAction = "resolveSubmitGet"
    /\ mode = "get"
    /\ getPatientData # NullPatient
    /\ getPatientData.id = "patient-1"
    /\ getResponse # EmptyResponse
    /\ patientId # "patient-1"

(***************************************************************************)
(* Properties of the optional-field handlers, checked under Spec.          *)
(***************************************************************************)
\* the keys of the options offered by the "Add optional field" select
AvailableKeys(pd) ==
    {availableOptionalFields(pd)[i].key : i \in DOMAIN availableOptionalFields(pd)}

\* the required fields of pd and pd2 hold the same values
SameRequired(pd, pd2) == \A f \in RequiredFields : pd2[f] = pd[f]

\* C22: in every reachable state the options offered for adding are
\* exactly the catalog keys that have no entry in optionalFields;
\* removeOptionalField(index) removes the entry at index, keeps the other
\* entries and their order, and makes the removed key available again;
\* handleOptionalFieldChange(index, value) sets the value of the entry at
\* index and changes nothing else of the form data.
C22_OptionalFieldHandlersFrame ==
    /\ [](AvailableKeys(patientData) = CatalogKeys \ KeysOf(patientData))
    /\ [][\A index \in DOMAIN patientData.optionalFields :
            LET of  == patientData.optionalFields
                of2 == patientData'.optionalFields
            IN  /\ lastAction' = "removeOptionalField" /\ removeOptionalField(index) =>
                      /\ Len(of2) = Len(of) - 1
                      /\ \A j \in 1..(index - 1) : of2[j] = of[j]
                      /\ \A j \in index..Len(of2) : of2[j] = of[j + 1]
                      /\ of[index].key \notin AvailableKeys(patientData)
                      /\ of[index].key \in AvailableKeys(patientData')
                      /\ AvailableKeys(patientData') =
                            AvailableKeys(patientData) \cup {of[index].key}
                      /\ SameRequired(patientData, patientData')
                /\ \A value \in OptVals(of[index].key) :
                      lastAction' = "handleOptionalFieldChange"
                         /\ handleOptionalFieldChange(index, value) =>
                         /\ Len(of2) = Len(of)
                         /\ \A j \in DOMAIN of : j # index => of2[j] = of[j]
                         /\ of2[index].key = of[index].key
                         /\ of2[index].label = of[index].label
                         /\ of2[index].value = value
                         /\ AvailableKeys(patientData') = AvailableKeys(patientData)
                         /\ SameRequired(patientData, patientData')]_vars

\* an entry between birthPlace, which holds a value, and email has been
\* removed
C22_Witness ==
    /\ lastAction = "removeOptionalField"
    /\ Len(patientData.optionalFields) = 2
    /\ patientData.optionalFields[1].key = "birthPlace"
    /\ patientData.optionalFields[1].value # ""
    /\ patientData.optionalFields[2].key = "email"
    /\ AvailableKeys(patientData) = {"maritalStatus", "language"}

====
